---------------------------- MODULE Spec2Model ----------------------------
(***************************************************************************)
(* A model of the fitness-tracking backend (src/main.py, src/auth.py).     *)
(*                                                                         *)
(*   Spec          the record handlers over the two DynamoDB tables        *)
(*                 (Workouts, PlannedWorkouts), one action per handler.    *)
(*   SpecWeek      get_week_bounds applied to reference instants.          *)
(*   SpecCalc      the insight calculators applied to a normalized,        *)
(*                 sorted workout list, each with the instant it reads     *)
(*                 from the clock.                                         *)
(*   SpecInsights  the GET /insights/comprehensive handler, step by step,  *)
(*                 with the wall clock advancing while it runs.            *)
(*   SpecConcurrent  planned-workout requests interleaving between their   *)
(*                 DynamoDB calls.                                         *)
(*                                                                         *)
(* Time.  An instant is a number of ticks since midnight of the day with   *)
(* proleptic ordinal 0 (Python: date.toordinal(); ordinal 1 is a Monday).  *)
(* One second is TicksPerSecond ticks, so a tick stands for the            *)
(* microsecond component of a datetime.  Percentages, which the code       *)
(* computes in floating point, are modelled as exact rationals <<n, d>>.   *)
(***************************************************************************)
EXTENDS Integers, Sequences, FiniteSets, TLC

VARIABLES
    table,                   \* Workouts table: id -> item (main.py:27)
    planned_workouts_table,  \* PlannedWorkouts table: id -> item (main.py:29)
    response,                \* the last HTTP response sent
    clock,                   \* the wall clock, datetime.now(timezone.utc)
    workouts,                \* the list a comprehensive-insights request works on
    profile,                 \* the profile item of the requesting user
    pc,                      \* position of the insights request / calculator run;
                             \* under SpecConcurrent, of each worker's request
    out                      \* results computed so far: field name -> value

vars == <<table, planned_workouts_table, response, clock, workouts, profile, pc, out>>

crudVars == <<table, planned_workouts_table, response>>
calcVars == <<clock, workouts, profile, pc, out>>

-----------------------------------------------------------------------------
(* Generic helpers *)

None == "None"

\* dict item assignment d[k] = v on a function
Put(f, k, v) == [i \in DOMAIN f \cup {k} |-> IF i = k THEN v ELSE f[i]]

\* removal of a key
Remove(f, k) == [i \in DOMAIN f \ {k} |-> f[i]]

\* all orderings of a finite set, as sequences without repetition
Orderings(S) ==
    {s \in [1..Cardinality(S) -> S] : \A i, j \in 1..Cardinality(S) : i # j => s[i] # s[j]}

RECURSIVE SumSeq(_)
SumSeq(s) == IF s = <<>> THEN 0 ELSE Head(s) + SumSeq(Tail(s))

\* Python's truthiness of a str | None field: None and "" are falsy
Falsy(s) == s = None \/ s = ""

-----------------------------------------------------------------------------
(* Time: datetime, timedelta, date *)

\* resolution of the clock: ticks per second (the microsecond component)
TicksPerSecond == 2

\* datetime.timedelta(days=, hours=, minutes=, seconds=) as a number of ticks
timedelta(days, hours, minutes, seconds) ==
    ((((days * 24) + hours) * 60 + minutes) * 60 + seconds) * TicksPerSecond

DayTicks == timedelta(1, 0, 0, 0)

\* datetime.date(): the calendar day (proleptic ordinal) of a wall-clock instant
date(t) == t \div DayTicks

\* date.weekday(): Monday = 0 .. Sunday = 6; ordinal 1 is a Monday
weekday(t) == (date(t) + 6) % 7

\* datetime.replace(hour=0, minute=0, second=0, microsecond=0)
replace_midnight(t) == date(t) * DayTicks

\* The calendar of the model: the ordinal of the Sunday that starts the week
\* the clock readings fall in (ordinal 7 is the first Sunday)
ThisSunday == 7 * 12

\* The instant of day `day` at h:m:s plus `ticks` ticks
At(day, h, m, s, ticks) == day * DayTicks + timedelta(0, h, m, s) + ticks

\* A datetime value: wall-clock ticks and whether it carries a UTC offset.
\* Every offset the model draws is +00:00.
Datetime(t, aware) == [t |-> t, aware |-> aware]

\* datetime.now(timezone.utc) when the clock shows c
utcnow(c) == Datetime(c, TRUE)

\* Timestamp strings.  kind: "none" (the attribute is None or missing),
\* "empty" (""), "garbage" (not ISO-8601), "iso" (an ISO date-time for wall
\* time t with suffix tz: "Z", "+00:00" or "" for no offset).
NoTimestamp == [kind |-> "none", t |-> 0, tz |-> ""]
EmptyTimestamp == [kind |-> "empty", t |-> 0, tz |-> ""]
GarbageTimestamp == [kind |-> "garbage", t |-> 0, tz |-> ""]
IsoString(t, tz) == [kind |-> "iso", t |-> t, tz |-> tz]

\* datetime.isoformat(): an aware UTC datetime prints with "+00:00"
isoformat(dt) == IsoString(dt.t, IF dt.aware THEN "+00:00" ELSE "")

\* `not ts` for a timestamp string
FalsyTimestamp(ts) == ts.kind \in {"none", "empty"}

-----------------------------------------------------------------------------
(* Authentication (src/auth.py) *)

Users == {"alice", "bob"}

\* Bearer credentials: a valid token per user, and one that fails verification
Credentials == Users \cup {"bad_token"}

\* verify_token: TRUE when the token decodes against the JWKS
verify_token(cred) == cred \in Users

\* get_current_user_id: the sub claim of the verified token
get_current_user_id(cred) == cred

-----------------------------------------------------------------------------
(* The record handlers (src/main.py:352-368, 439-498) *)

\* ids a client may put in a request, and the ids uuid4() may generate
ClientIds == {"w1"}
UuidIds == {"u1"}
Ids == ClientIds \cup UuidIds

\* The clock reading of every handler of Spec (the clock does not move
\* there): Wednesday noon
CrudNow == At(ThisSunday + 3, 12, 0, 0, 0)

\* Request bodies of POST /workouts (class Workout, main.py:31-37)
WorkoutBodies ==
    [id : ClientIds \cup {None},
     user_id : {None, "bob"},
     type : {"running"},
     duration : {30},
     calories : {300},
     timestamp : {NoTimestamp, IsoString(CrudNow, "Z")}]

\* Request bodies of POST and PUT /planned-workouts (class PlannedWorkout,
\* main.py:55-65).  planned_date is the rank of the YYYY-MM-DD string in
\* string order; created_at is a timestamp string.
PlannedBodies ==
    [id : ClientIds \cup {None},
     user_id : {"default", "alice"},
     workout_type : {"yoga"},
     planned_date : {1, 2},
     planned_time : {None},
     planned_duration : {45},
     notes : {None},
     created_at : {NoTimestamp},
     completed : {FALSE},
     completed_workout_id : {None}]

\* str(uuid4()): an id no item of the table has
uuid4(tbl) == UuidIds \ DOMAIN tbl

\* Mutant of scan: the filter expression is dropped
scan_unfiltered(tbl, uid) == Orderings({tbl[i] : i \in DOMAIN tbl})

\* table.scan(FilterExpression='user_id = :uid'): the matching items, in an
\* order DynamoDB chooses
scan(tbl, uid) == Orderings({tbl[i] : i \in {j \in DOMAIN tbl : tbl[j].user_id = uid}})

\* list.sort(key=lambda x: x.get('planned_date', '')): a stable insertion
RECURSIVE sort_by_planned_date(_)
insert_by_planned_date(sorted, x) ==
    LET k == Cardinality({i \in 1..Len(sorted) : sorted[i].planned_date <= x.planned_date})
    IN SubSeq(sorted, 1, k) \o <<x>> \o SubSeq(sorted, k + 1, Len(sorted))
sort_by_planned_date(items) ==
    IF items = <<>> THEN <<>>
    ELSE insert_by_planned_date(sort_by_planned_date(SubSeq(items, 1, Len(items) - 1)),
                                items[Len(items)])

\* The response of a handler: the route, the resolved user, the path id, the
\* HTTP status, and the records of the body
Response(op, caller, id, status, items) ==
    [op |-> op, caller |-> caller, id |-> id, status |-> status, items |-> items]

\* Mutant of not_found: only the presence of the item is tested
not_found_presence_only(tbl, id, user_id) == id \notin DOMAIN tbl

\* The ownership test `if not item or item.get('user_id') != user_id`
not_found(tbl, id, user_id) == id \notin DOMAIN tbl \/ tbl[id].user_id # user_id

\* Depends(get_current_user_id) fails: 401 before any handler runs
Unauthorized(cred, op) ==
    /\ ~verify_token(cred)
    /\ response' = Response(op, None, None, 401, <<>>)
    /\ UNCHANGED <<table, planned_workouts_table>>

\* POST /workouts
log_workout(cred, workout) ==
    /\ verify_token(cred)
    /\ \E new_id \in (IF Falsy(workout.id) THEN uuid4(table) ELSE {workout.id}) :
         LET user_id == get_current_user_id(cred)
             item == [workout EXCEPT
                        !.id = new_id,
                        !.timestamp = IF FalsyTimestamp(workout.timestamp)
                                      THEN isoformat(utcnow(clock))
                                      ELSE workout.timestamp,
                        !.user_id = user_id]
         IN /\ table' = Put(table, new_id, item)
            /\ response' = Response("log_workout", user_id, new_id, 200, <<item>>)
    /\ UNCHANGED planned_workouts_table

\* GET /workouts
get_workouts(cred) ==
    /\ verify_token(cred)
    /\ \E items \in scan(table, get_current_user_id(cred)) :
         response' = Response("get_workouts", get_current_user_id(cred), None, 200, items)
    /\ UNCHANGED <<table, planned_workouts_table>>

\* DELETE /workouts/{workout_id}
delete_workout(cred, workout_id) ==
    /\ verify_token(cred)
    /\ LET user_id == get_current_user_id(cred)
       IN IF not_found(table, workout_id, user_id)
          THEN /\ response' = Response("delete_workout", user_id, workout_id, 404, <<>>)
               /\ UNCHANGED table
          ELSE /\ table' = Remove(table, workout_id)
               /\ response' = Response("delete_workout", user_id, workout_id, 200, <<>>)
    /\ UNCHANGED planned_workouts_table

\* POST /planned-workouts
create_planned_workout(cred, workout) ==
    /\ verify_token(cred)
    /\ \E new_id \in (IF Falsy(workout.id) THEN uuid4(planned_workouts_table)
                      ELSE {workout.id}) :
         LET user_id == get_current_user_id(cred)
             item == [workout EXCEPT
                        !.id = new_id,
                        !.created_at = IF FalsyTimestamp(workout.created_at)
                                       THEN isoformat(utcnow(clock))
                                       ELSE workout.created_at,
                        !.user_id = user_id]
         IN /\ planned_workouts_table' = Put(planned_workouts_table, new_id, item)
            /\ response' = Response("create_planned_workout", user_id, new_id, 200, <<item>>)
    /\ UNCHANGED table

\* GET /planned-workouts
get_planned_workouts(cred) ==
    /\ verify_token(cred)
    /\ \E items \in scan(planned_workouts_table, get_current_user_id(cred)) :
         response' = Response("get_planned_workouts", get_current_user_id(cred), None, 200,
                              sort_by_planned_date(items))
    /\ UNCHANGED <<table, planned_workouts_table>>

\* GET /planned-workouts/{workout_id}
get_planned_workout(cred, workout_id) ==
    /\ verify_token(cred)
    /\ LET user_id == get_current_user_id(cred)
       IN response' =
            IF not_found(planned_workouts_table, workout_id, user_id)
            THEN Response("get_planned_workout", user_id, workout_id, 404, <<>>)
            ELSE Response("get_planned_workout", user_id, workout_id, 200,
                          <<planned_workouts_table[workout_id]>>)
    /\ UNCHANGED <<table, planned_workouts_table>>

\* PUT /planned-workouts/{workout_id}
update_planned_workout(cred, workout_id, workout) ==
    /\ verify_token(cred)
    /\ LET user_id == get_current_user_id(cred)
           item == [workout EXCEPT !.id = workout_id, !.user_id = user_id]
       IN IF not_found(planned_workouts_table, workout_id, user_id)
          THEN /\ response' = Response("update_planned_workout", user_id, workout_id, 404, <<>>)
               /\ UNCHANGED planned_workouts_table
          ELSE /\ planned_workouts_table' = Put(planned_workouts_table, workout_id, item)
               /\ response' = Response("update_planned_workout", user_id, workout_id, 200, <<item>>)
    /\ UNCHANGED table

\* DELETE /planned-workouts/{workout_id}
delete_planned_workout(cred, workout_id) ==
    /\ verify_token(cred)
    /\ LET user_id == get_current_user_id(cred)
       IN IF not_found(planned_workouts_table, workout_id, user_id)
          THEN /\ response' = Response("delete_planned_workout", user_id, workout_id, 404, <<>>)
               /\ UNCHANGED planned_workouts_table
          ELSE /\ planned_workouts_table' = Remove(planned_workouts_table, workout_id)
               /\ response' = Response("delete_planned_workout", user_id, workout_id, 200, <<>>)
    /\ UNCHANGED table

Routes ==
    {"log_workout", "get_workouts", "delete_workout", "create_planned_workout",
     "get_planned_workouts", "get_planned_workout", "update_planned_workout",
     "delete_planned_workout"}

\* The state of the variables a specification does not use
IdleCrud ==
    /\ table = <<>>
    /\ planned_workouts_table = <<>>
    /\ response = Response(None, None, None, 0, <<>>)

IdleCalc ==
    /\ clock = CrudNow
    /\ workouts = <<>>
    /\ profile = <<>>
    /\ pc = "idle"
    /\ out = <<>>

Init == IdleCrud /\ IdleCalc

Next ==
    \/ \E cred \in Credentials, op \in Routes : Unauthorized(cred, op) /\ UNCHANGED calcVars
    \/ \E cred \in Credentials, workout \in WorkoutBodies :
         log_workout(cred, workout) /\ UNCHANGED calcVars
    \/ \E cred \in Credentials : get_workouts(cred) /\ UNCHANGED calcVars
    \/ \E cred \in Credentials, id \in Ids : delete_workout(cred, id) /\ UNCHANGED calcVars
    \/ \E cred \in Credentials, workout \in PlannedBodies :
         create_planned_workout(cred, workout) /\ UNCHANGED calcVars
    \/ \E cred \in Credentials : get_planned_workouts(cred) /\ UNCHANGED calcVars
    \/ \E cred \in Credentials, id \in Ids : get_planned_workout(cred, id) /\ UNCHANGED calcVars
    \/ \E cred \in Credentials, id \in Ids, workout \in PlannedBodies :
         update_planned_workout(cred, id, workout) /\ UNCHANGED calcVars
    \/ \E cred \in Credentials, id \in Ids : delete_planned_workout(cred, id) /\ UNCHANGED calcVars

Spec == Init /\ [][Next]_vars

-----------------------------------------------------------------------------
(* Properties of the record handlers *)

ReadRoutes == {"get_workouts", "get_planned_workouts", "get_planned_workout"}

\* C1: every WorkoutRecord returned by get_workouts and every PlannedWorkout
\* returned by get_planned_workouts or get_planned_workout carries the user id
\* of the authenticated caller.
C1_ReturnedRecordsBelongToCaller ==
    (response.op \in ReadRoutes /\ response.status = 200) =>
        \A i \in 1..Len(response.items) : response.items[i].user_id = response.caller

\* C1 witness: a listing was answered with a record while the table also holds
\* a record of another user.
C1_Witness ==
    /\ response.op = "get_planned_workouts"
    /\ response.status = 200
    /\ Len(response.items) >= 1
    /\ \E i \in DOMAIN planned_workouts_table :
         planned_workouts_table[i].user_id # response.caller
    /\ \E i \in DOMAIN table : table[i].user_id # response.caller

\* A record of tbl that the step changed or removed
Touched(tbl, tbl2, i) == i \in DOMAIN tbl /\ (i \notin DOMAIN tbl2 \/ tbl2[i] # tbl[i])

\* C2: no request overwrites, re-assigns or deletes a record whose stored
\* user_id differs from the requester's resolved identity, log and create
\* requests with an id already in use included.
C2_NoMutationOfForeignRecord ==
    [][/\ \A i \in Ids : Touched(table, table', i) =>
              table[i].user_id = response'.caller
       /\ \A i \in Ids : Touched(planned_workouts_table, planned_workouts_table', i) =>
              planned_workouts_table[i].user_id = response'.caller]_vars

\* The store after a refused request, and after a delete or an update of id i
SameStore == table' = table /\ planned_workouts_table' = planned_workouts_table

RemovedExactly(tbl, tbl2, i) ==
    /\ DOMAIN tbl2 = DOMAIN tbl \ {i}
    /\ \A j \in DOMAIN tbl2 : tbl2[j] = tbl[j]

ReplacedExactly(tbl, tbl2, i, caller) ==
    /\ DOMAIN tbl2 = DOMAIN tbl
    /\ \A j \in DOMAIN tbl \ {i} : tbl2[j] = tbl[j]
    /\ tbl2[i].id = i
    /\ tbl2[i].user_id = caller

Missing(tbl, r) == r.id \notin DOMAIN tbl \/ tbl[r.id].user_id # r.caller

C3_Step ==
    LET r == response' IN
    /\ (r.op = "delete_workout" /\ r.status # 401) =>
          IF Missing(table, r)
          THEN r.status = 404 /\ SameStore
          ELSE /\ r.status = 200
               /\ RemovedExactly(table, table', r.id)
               /\ planned_workouts_table' = planned_workouts_table
    /\ (r.op = "get_planned_workout" /\ r.status # 401) =>
          /\ SameStore
          /\ IF Missing(planned_workouts_table, r)
             THEN r.status = 404
             ELSE r.status = 200 /\ r.items = <<planned_workouts_table[r.id]>>
    /\ (r.op = "update_planned_workout" /\ r.status # 401) =>
          IF Missing(planned_workouts_table, r)
          THEN r.status = 404 /\ SameStore
          ELSE /\ r.status = 200
               /\ ReplacedExactly(planned_workouts_table, planned_workouts_table', r.id, r.caller)
               /\ planned_workouts_table'[r.id] = r.items[1]
               /\ table' = table
    /\ (r.op = "delete_planned_workout" /\ r.status # 401) =>
          IF Missing(planned_workouts_table, r)
          THEN r.status = 404 /\ SameStore
          ELSE /\ r.status = 200
               /\ RemovedExactly(planned_workouts_table, planned_workouts_table', r.id)
               /\ table' = table

\* C3: delete_workout, get_planned_workout, update_planned_workout and
\* delete_planned_workout answer 404 and leave both tables unchanged when the
\* id is absent or the stored user_id is not the caller's; for the owner,
\* delete removes exactly that record and update replaces exactly that record.
C3_NotFoundOrExactEffect == [][C3_Step]_vars

\* C3 witness: an update by a user who does not own the record was refused
\* with 404 while both tables hold records, one of them the caller's own.
C3_Witness ==
    /\ response.op = "update_planned_workout"
    /\ response.status = 404
    /\ response.id \in DOMAIN planned_workouts_table
    /\ planned_workouts_table[response.id].user_id # response.caller
    /\ \E i \in DOMAIN planned_workouts_table :
         planned_workouts_table[i].user_id = response.caller
    /\ table # <<>>

-----------------------------------------------------------------------------
(* get_week_bounds (src/main.py:124-130) *)

\* Start (Sunday) and end (Saturday) of the week weeks_ago weeks before the
\* week of reference_date, as <<week_start, week_end>>
get_week_bounds(reference_date, weeks_ago) ==
    LET days_since_sunday == (weekday(reference_date.t) + 1) % 7
        week_start == replace_midnight(
            reference_date.t - timedelta(days_since_sunday + (7 * weeks_ago), 0, 0, 0))
        week_end == week_start + timedelta(6, 23, 59, 59)
    IN <<Datetime(week_start, reference_date.aware), Datetime(week_end, reference_date.aware)>>

\* Largest weeks_ago SpecWeek applies get_week_bounds to
MaxWeeksAgo == 8

\* Reference instants: each day from this Sunday to the next one, at
\* midnight, one tick later, noon, 23:59:59 sharp and the last tick of the day
ReferenceInstants ==
    {At(ThisSunday + d, 0, 0, 0, 0) + tod :
        d \in 0..7,
        tod \in {0, 1, timedelta(0, 12, 0, 0), timedelta(0, 23, 59, 59), DayTicks - 1}}

InitWeek ==
    /\ IdleCrud
    /\ clock \in ReferenceInstants
    /\ workouts = <<>>
    /\ profile = <<>>
    /\ pc = "idle"
    /\ out = <<>>

\* One call get_week_bounds(now, weeks_ago); out maps weeks_ago to the result
call_get_week_bounds(weeks_ago) ==
    /\ weeks_ago \notin DOMAIN out
    /\ out' = Put(out, weeks_ago, get_week_bounds(utcnow(clock), weeks_ago))
    /\ UNCHANGED <<clock, workouts, profile, pc>>
    /\ UNCHANGED crudVars

NextWeek == \E weeks_ago \in 0..MaxWeeksAgo : call_get_week_bounds(weeks_ago)

SpecWeek == InitWeek /\ [][NextWeek]_vars

\* The shape of a result: a Sunday at 00:00:00 and an end 6 days 23:59:59 later
SundayMidnight(dt) == weekday(dt.t) = 6 /\ dt.t % DayTicks = 0

WeekShape(k) ==
    /\ SundayMidnight(out[k][1])
    /\ out[k][2].t - out[k][1].t = (6 * 24 * 60 * 60 + 23 * 60 * 60 + 59 * 60 + 59) * TicksPerSecond
    /\ (0 \in DOMAIN out) => out[k][1].t = out[0][1].t - 7 * k * DayTicks

\* C4: for every reference instant and weeks_ago >= 0 the start is a Sunday
\* at 00:00:00, the end is exactly 6 days 23:59:59 after the start, the start
\* for weeks_ago = k is 7*k days before the start for weeks_ago = 0, and for
\* weeks_ago = 0 the reference instant lies within [start, end].
C4_WeekBounds ==
    \A k \in DOMAIN out :
        /\ WeekShape(k)
        /\ (k = 0) => (out[0][1].t <= clock /\ clock <= out[0][2].t)

\* The part of C4 the code satisfies: the shape of the bounds, and the
\* reference instant lying in the half-open week [start, start + 7 days)
C4_ShapeAndHalfOpenWeek ==
    \A k \in DOMAIN out :
        /\ WeekShape(k)
        /\ (k = 0) => (out[0][1].t <= clock /\ clock < out[0][1].t + 7 * DayTicks)

-----------------------------------------------------------------------------
(* Numbers: exact rationals <<n, d>> with d > 0 in lowest terms *)

Abs(x) == IF x < 0 THEN -x ELSE x

RECURSIVE GCD(_, _)
GCD(a, b) == IF b = 0 THEN a ELSE GCD(b, a % b)

\* the quotient n / d, for d # 0
Rat(n, d) ==
    LET g == GCD(Abs(n), Abs(d))
        s == IF d < 0 THEN -1 ELSE 1
    IN <<(s * n) \div g, (s * d) \div g>>

RatInt(n) == <<n, 1>>

RatLess(a, b) == a[1] * b[2] < b[1] * a[2]

\* min(a, b) of Python: b is returned only when it is smaller than a
RatMin(a, b) == IF RatLess(b, a) THEN b ELSE a

\* convert_decimal: DynamoDB hands numbers back as Decimal; the stored numbers
\* are the integers of the request models, and int() leaves an integer as it is
convert_decimal(value) == value

-----------------------------------------------------------------------------
(* The calculators (src/main.py:138-270).  Each takes the instant `now` that
   it reads from the clock at its first line. *)

\* week_start <= w['parsed_date'] <= week_end, for comparable datetimes
in_week(w, bounds) ==
    bounds[1].t <= w.parsed_date.t /\ w.parsed_date.t <= bounds[2].t

\* [w for w in workouts if week_start <= w['parsed_date'] <= week_end]
week_filter(ws, bounds) ==
    LET Test(w) == in_week(w, bounds) IN SelectSeq(ws, Test)

\* Comparing an offset-naive with an offset-aware datetime raises TypeError
raises_on_compare(ws) == \E i \in 1..Len(ws) : ~ws[i].parsed_date.aware

sum_duration(ws) == SumSeq([i \in 1..Len(ws) |-> convert_decimal(ws[i].duration)])
sum_calories(ws) == SumSeq([i \in 1..Len(ws) |-> convert_decimal(ws[i].calories)])

\* profile.get(key): None when the item has no such attribute
has_target_type(p) == "weekly_target_type" \in DOMAIN p /\ p.weekly_target_type # ""
has_target_value(p) == "weekly_target_value" \in DOMAIN p /\ p.weekly_target_value # 0

\* calculate_weekly_progress: <<>> for None, else <<WeeklyProgress>>
calculate_weekly_progress(ws, p, now) ==
    IF ~has_target_type(p) \/ ~has_target_value(p) THEN <<>>
    ELSE
      LET this_week == week_filter(ws, get_week_bounds(now, 0))
          by_count == p.weekly_target_type = "workouts"
          current == IF by_count THEN Len(this_week) ELSE sum_duration(this_week)
          target_value == convert_decimal(p.weekly_target_value)
          percentage == IF target_value > 0 THEN Rat(current * 100, target_value)
                        ELSE RatInt(0)
      IN <<[current |-> current,
            target |-> target_value,
            unit |-> IF by_count THEN "workouts" ELSE "minutes",
            percentage |-> RatMin(percentage, RatInt(100))]>>

\* Mutant of calc_change: the change is taken relative to the current value
calc_change_of_current(current, previous) ==
    IF previous = 0 THEN (IF current > 0 THEN RatInt(100) ELSE RatInt(0))
    ELSE IF current = 0 THEN RatInt(-100)
    ELSE Rat((current - previous) * 100, current)

\* calc_change (main.py:184-187)
calc_change(current, previous) ==
    IF previous = 0 THEN (IF current > 0 THEN RatInt(100) ELSE RatInt(0))
    ELSE Rat((current - previous) * 100, previous)

\* calculate_week_comparison
calculate_week_comparison(ws, now) ==
    LET this_week == week_filter(ws, get_week_bounds(now, 0))
        last_week == week_filter(ws, get_week_bounds(now, 1))
    IN [this_week_workouts |-> Len(this_week),
        last_week_workouts |-> Len(last_week),
        this_week_duration |-> sum_duration(this_week),
        last_week_duration |-> sum_duration(last_week),
        this_week_calories |-> sum_calories(this_week),
        last_week_calories |-> sum_calories(last_week),
        workout_change_percent |-> calc_change(Len(this_week), Len(last_week)),
        duration_change_percent |->
            calc_change(sum_duration(this_week), sum_duration(last_week)),
        calories_change_percent |->
            calc_change(sum_calories(this_week), sum_calories(last_week))]

\* sorted(workout_dates, reverse=True) for a set of day ordinals
RECURSIVE sorted_reverse(_)
sorted_reverse(S) ==
    IF S = {} THEN <<>>
    ELSE LET m == CHOOSE x \in S : \A y \in S : y <= x
         IN <<m>> \o sorted_reverse(S \ {m})

\* The loop of main.py:223-228 from position i on
RECURSIVE current_streak_loop(_, _, _, _)
current_streak_loop(sorted_dates, i, check_date, current_streak) ==
    IF i > Len(sorted_dates) THEN current_streak
    ELSE IF sorted_dates[i] = check_date
         THEN current_streak_loop(sorted_dates, i + 1, sorted_dates[i] - 1, current_streak + 1)
    ELSE IF sorted_dates[i] < check_date THEN current_streak
    ELSE current_streak_loop(sorted_dates, i + 1, check_date, current_streak)

\* The loop of main.py:232-237 from position i on
RECURSIVE longest_streak_loop(_, _, _, _)
longest_streak_loop(sorted_dates, i, current_run, longest_streak) ==
    IF i > Len(sorted_dates) THEN longest_streak
    ELSE IF sorted_dates[i] = sorted_dates[i - 1] - 1
         THEN longest_streak_loop(sorted_dates, i + 1, current_run + 1,
                                  IF current_run + 1 > longest_streak
                                  THEN current_run + 1 ELSE longest_streak)
    ELSE longest_streak_loop(sorted_dates, i + 1, 1, longest_streak)

\* date.isoformat(): the YYYY-MM-DD string of a day
date_isoformat(d) == [kind |-> "iso_date", ordinal |-> d]

StreakInfo(current_streak, longest_streak, last_workout_date) ==
    [current_streak |-> current_streak,
     longest_streak |-> longest_streak,
     last_workout_date |-> last_workout_date]

\* calculate_streak; last_workout_date is <<>> for None
calculate_streak(ws, now) ==
    IF ws = <<>> THEN StreakInfo(0, 0, <<>>)
    ELSE
      LET workout_dates == {date(ws[i].parsed_date.t) : i \in 1..Len(ws)}
          sorted_dates == sorted_reverse(workout_dates)
          today == date(now.t)
          yesterday == today - 1
          current_streak ==
              IF sorted_dates[1] >= yesterday
              THEN current_streak_loop(sorted_dates, 2, sorted_dates[1] - 1, 1)
              ELSE 0
          longest_streak == longest_streak_loop(sorted_dates, 2, 1, 1)
      IN StreakInfo(current_streak, longest_streak, <<date_isoformat(sorted_dates[1])>>)

\* Days before the first day of month m in a year that is not a leap year
\* (every day of the model lies in the year of ordinal 1)
DaysBeforeMonth ==
    <<0, 31, 59, 90, 120, 151, 181, 212, 243, 273, 304, 334, 365>>

\* strftime("%b %d"): the month (1 = "Jan") and the day of the month
strftime_b_d(dt) ==
    LET n == date(dt.t)
        m == CHOOSE k \in 1..12 : DaysBeforeMonth[k] < n /\ n <= DaysBeforeMonth[k + 1]
    IN [b |-> m, d |-> n - DaysBeforeMonth[m]]

\* range(7, -1, -1)
weeks_ago_range == [i \in 1..8 |-> 8 - i]

\* Mutant of calculate_workout_frequency: the weeks run from the current one back
calculate_workout_frequency_newest_first(ws, now) ==
    [i \in 1..8 |->
        LET bounds == get_week_bounds(now, i - 1)
        IN [date |-> strftime_b_d(bounds[1]), count |-> Len(week_filter(ws, bounds))]]

\* calculate_workout_frequency
calculate_workout_frequency(ws, now) ==
    [i \in DOMAIN weeks_ago_range |->
        LET bounds == get_week_bounds(now, weeks_ago_range[i])
            week_workouts == week_filter(ws, bounds)
        IN [date |-> strftime_b_d(bounds[1]), count |-> Len(week_workouts)]]

\* calculate_calories_over_time
calculate_calories_over_time(ws, now) ==
    [i \in DOMAIN weeks_ago_range |->
        LET bounds == get_week_bounds(now, weeks_ago_range[i])
            week_workouts == week_filter(ws, bounds)
        IN [date |-> strftime_b_d(bounds[1]), calories |-> sum_calories(week_workouts)]]

-----------------------------------------------------------------------------
(* SpecCalc: the calculators applied to normalized workout lists *)

\* Longest workout list SpecCalc draws
MaxWorkouts == 3

Workout(type, duration, calories, t) ==
    [type |-> type, duration |-> duration, calories |-> calories,
     parsed_date |-> Datetime(t, TRUE)]

\* The workouts the lists are drawn from, most recent first: days around the
\* Wednesday of the current week, the turn of the week, last week, and the
\* far end of the 8-week window
Catalogue ==
    << Workout("running",   5,  50, At(ThisSunday + 4,  9,  0,  0, 0)),
       Workout("running",   5, 300, At(ThisSunday + 3,  8,  0,  0, 0)),
       Workout("yoga",     10, 400, At(ThisSunday + 2, 20,  0,  0, 0)),
       Workout("running", -30, 150, At(ThisSunday + 1,  7,  0,  0, 0)),
       Workout("yoga",     45,   0, At(ThisSunday,      0,  0,  0, 0)),
       Workout("running",  20, 150, At(ThisSunday - 1, 23, 59, 59, TicksPerSecond - 1)),
       Workout("running",   5,  40, At(ThisSunday - 4, 12,  0,  0, 0)),
       Workout("yoga",     10,  80, At(ThisSunday - 5, 12,  0,  0, 0)),
       Workout("running",  30, 300, At(ThisSunday - 49, 0,  0,  0, 0)),
       Workout("yoga",     30, 300, At(ThisSunday - 50, 12, 0,  0, 0)) >>

\* The lists the normalizer can hand to the calculators: sorted by
\* parsed_date, most recent first (main.py:403)
NormalizedLists ==
    UNION {
      {[i \in 1..n |-> Catalogue[ix[i]]] :
          ix \in {f \in [1..n -> DOMAIN Catalogue] : \A i \in 1..(n - 1) : f[i] <= f[i + 1]}}
      : n \in 0..MaxWorkouts}

\* Profile items: no item ({}), goals by count and by minutes, a negative and
\* a zero target, an empty target type, and a type without a value
Profiles ==
    { <<>>,
      [weekly_target_type |-> "workouts", weekly_target_value |-> 2],
      [weekly_target_type |-> "minutes", weekly_target_value |-> 20],
      [weekly_target_type |-> "minutes", weekly_target_value |-> -5],
      [weekly_target_type |-> "workouts", weekly_target_value |-> 0],
      [weekly_target_type |-> "", weekly_target_value |-> 3],
      [weekly_target_type |-> "minutes"] }

\* Clock readings: Wednesday noon, the last tick of Saturday, and the
\* following Sunday at 00:00:00
NowValues ==
    { At(ThisSunday + 3, 12, 0, 0, 0),
      At(ThisSunday + 6, 23, 59, 59, TicksPerSecond - 1),
      At(ThisSunday + 7, 0, 0, 0, 0) }

InitCalc ==
    /\ IdleCrud
    /\ clock \in NowValues
    /\ workouts \in NormalizedLists
    /\ profile \in Profiles
    /\ pc = "idle"
    /\ out = <<>>

\* Each call leaves its result in out, under the calculator's name
call_calculate_weekly_progress ==
    /\ out' = [f \in {"weekly_progress"} |->
                 calculate_weekly_progress(workouts, profile, utcnow(clock))]
    /\ UNCHANGED <<clock, workouts, profile, pc>>
    /\ UNCHANGED crudVars

call_calculate_week_comparison ==
    /\ out' = [f \in {"week_comparison"} |->
                 calculate_week_comparison(workouts, utcnow(clock))]
    /\ UNCHANGED <<clock, workouts, profile, pc>>
    /\ UNCHANGED crudVars

call_calculate_streak ==
    /\ out' = [f \in {"streak"} |-> calculate_streak(workouts, utcnow(clock))]
    /\ UNCHANGED <<clock, workouts, profile, pc>>
    /\ UNCHANGED crudVars

call_calculate_workout_frequency ==
    /\ out' = [f \in {"workout_frequency"} |->
                 calculate_workout_frequency(workouts, utcnow(clock))]
    /\ UNCHANGED <<clock, workouts, profile, pc>>
    /\ UNCHANGED crudVars

call_calculate_calories_over_time ==
    /\ out' = [f \in {"calories_over_time"} |->
                 calculate_calories_over_time(workouts, utcnow(clock))]
    /\ UNCHANGED <<clock, workouts, profile, pc>>
    /\ UNCHANGED crudVars

NextCalc ==
    \/ call_calculate_weekly_progress
    \/ call_calculate_week_comparison
    \/ call_calculate_streak
    \/ call_calculate_workout_frequency
    \/ call_calculate_calories_over_time

SpecCalc == InitCalc /\ [][NextCalc]_vars

-----------------------------------------------------------------------------
(* Properties of the calculators *)

Called(name) == name \in DOMAIN out

\* C5: whenever calculate_weekly_progress returns a result its percentage is
\* in [0, 100], for every workout collection and every target value, and a
\* target <= 0 yields percentage 0.
C5_PercentageWithinZeroAndHundred ==
    (Called("weekly_progress") /\ out.weekly_progress # <<>>) =>
        LET r == out.weekly_progress[1] IN
        /\ 0 <= r.percentage[1]
        /\ r.percentage[1] <= 100 * r.percentage[2]
        /\ (r.target <= 0) => r.percentage = <<0, 1>>

\* The part of C5 the code satisfies: the percentage never exceeds 100, and a
\* target <= 0 yields 0
C5_PercentageAtMostHundred ==
    (Called("weekly_progress") /\ out.weekly_progress # <<>>) =>
        LET r == out.weekly_progress[1] IN
        /\ r.percentage[2] > 0
        /\ r.percentage[1] <= 100 * r.percentage[2]
        /\ (r.target <= 0) => r.percentage = <<0, 1>>

\* The positions of the workouts inside the week weeks_ago weeks back
WeekIndexes(weeks_ago) ==
    LET b == get_week_bounds(utcnow(clock), weeks_ago)
    IN {i \in 1..Len(workouts) :
          b[1].t <= workouts[i].parsed_date.t /\ workouts[i].parsed_date.t <= b[2].t}

RECURSIVE DurationOver(_)
DurationOver(S) ==
    IF S = {} THEN 0
    ELSE LET i == CHOOSE x \in S : TRUE IN workouts[i].duration + DurationOver(S \ {i})

RECURSIVE CaloriesOver(_)
CaloriesOver(S) ==
    IF S = {} THEN 0
    ELSE LET i == CHOOSE x \in S : TRUE IN workouts[i].calories + CaloriesOver(S \ {i})

\* r is the percent change from previous to current
IsChange(r, current, previous) ==
    /\ r[2] > 0
    /\ IF previous # 0 THEN r[1] * previous = (current - previous) * 100 * r[2]
       ELSE IF current > 0 THEN r = <<100, 1>>
       ELSE r = <<0, 1>>

\* C6: each of the three percent changes of calculate_week_comparison is
\* (current - previous) / previous * 100 when previous # 0, 100 when previous
\* = 0 < current, and 0 when both are 0, over the sums of this week's and last
\* week's records; calc_change(0,0) = 0, (5,0) = 100, (10,5) = 100, (5,10) = -50.
C6_PercentChanges ==
    /\ Called("week_comparison") =>
         LET wc == out.week_comparison
             this == WeekIndexes(0)
             last == WeekIndexes(1)
         IN /\ wc.this_week_workouts = Cardinality(this)
            /\ wc.last_week_workouts = Cardinality(last)
            /\ wc.this_week_duration = DurationOver(this)
            /\ wc.last_week_duration = DurationOver(last)
            /\ wc.this_week_calories = CaloriesOver(this)
            /\ wc.last_week_calories = CaloriesOver(last)
            /\ IsChange(wc.workout_change_percent, Cardinality(this), Cardinality(last))
            /\ IsChange(wc.duration_change_percent, DurationOver(this), DurationOver(last))
            /\ IsChange(wc.calories_change_percent, CaloriesOver(this), CaloriesOver(last))
            /\ (DurationOver(this) = 10 /\ DurationOver(last) = 5) =>
                   wc.duration_change_percent = <<100, 1>>
            /\ (DurationOver(this) = 5 /\ DurationOver(last) = 10) =>
                   wc.duration_change_percent = <<-50, 1>>
    /\ calc_change(0, 0) = <<0, 1>>
    /\ calc_change(5, 0) = <<100, 1>>
    /\ calc_change(10, 5) = <<100, 1>>
    /\ calc_change(5, 10) = <<-50, 1>>

\* C6 witness: a comparison of 5 minutes this week against 10 minutes last
\* week (-50 percent), with calories that grew from a non-zero sum
C6_Witness ==
    /\ Called("week_comparison")
    /\ out.week_comparison.this_week_duration = 5
    /\ out.week_comparison.last_week_duration = 10
    /\ out.week_comparison.duration_change_percent = <<-50, 1>>
    /\ out.week_comparison.last_week_calories > 0
    /\ out.week_comparison.this_week_calories > out.week_comparison.last_week_calories

\* The calendar days with a workout, and the run of consecutive days ending at d
WorkoutDays == {workouts[i].parsed_date.t \div DayTicks : i \in 1..Len(workouts)}

RunEndingAt(d) ==
    CHOOSE n \in 1..Cardinality(WorkoutDays) :
        /\ \A k \in 0..(n - 1) : (d - k) \in WorkoutDays
        /\ (d - n) \notin WorkoutDays

MostRecentDay == CHOOSE d \in WorkoutDays : \A e \in WorkoutDays : e <= d

Today == clock \div DayTicks

\* C7: current_streak is 0 when the most recent workout date is neither today
\* nor yesterday, and otherwise the length of the run of consecutive days
\* ending at the most recent date; longest_streak is the longest run of
\* consecutive days; with no workouts both are 0 and last_workout_date is null.
C7_Streak ==
    Called("streak") =>
        IF workouts = <<>>
        THEN out.streak = [current_streak |-> 0, longest_streak |-> 0,
                           last_workout_date |-> <<>>]
        ELSE /\ out.streak.current_streak =
                  IF MostRecentDay \in {Today, Today - 1}
                  THEN RunEndingAt(MostRecentDay) ELSE 0
             /\ \E d \in WorkoutDays : out.streak.longest_streak = RunEndingAt(d)
             /\ \A d \in WorkoutDays : out.streak.longest_streak >= RunEndingAt(d)
             /\ out.streak.last_workout_date[1].ordinal = MostRecentDay

\* What the code computes instead: the streak is alive for every most recent
\* date not before yesterday, a date after today included
C7_StreakAliveFromYesterdayOn ==
    Called("streak") =>
        IF workouts = <<>>
        THEN out.streak = [current_streak |-> 0, longest_streak |-> 0,
                           last_workout_date |-> <<>>]
        ELSE /\ out.streak.current_streak =
                  IF MostRecentDay >= Today - 1
                  THEN RunEndingAt(MostRecentDay) ELSE 0
             /\ \E d \in WorkoutDays : out.streak.longest_streak = RunEndingAt(d)
             /\ \A d \in WorkoutDays : out.streak.longest_streak >= RunEndingAt(d)
             /\ out.streak.last_workout_date[1].ordinal = MostRecentDay

\* C8: calculate_workout_frequency and calculate_calories_over_time return
\* exactly 8 points, for weeks_ago = 7 down to 0 in that order, each with the
\* count / calorie sum of the records inside that week's bounds, 0 for a week
\* without records.
C8_EightWeeklyPoints ==
    /\ Called("workout_frequency") =>
         /\ Len(out.workout_frequency) = 8
         /\ \A i \in 1..8 :
              out.workout_frequency[i].count = Cardinality(WeekIndexes(8 - i))
    /\ Called("calories_over_time") =>
         /\ Len(out.calories_over_time) = 8
         /\ \A i \in 1..8 :
              out.calories_over_time[i].calories = CaloriesOver(WeekIndexes(8 - i))

\* C8 witness: a frequency series whose first point (7 weeks ago) counts one
\* workout, whose last point (the current week) counts two, and whose other
\* points are 0
C8_Witness ==
    /\ Called("workout_frequency")
    /\ out.workout_frequency[1].count = 1
    /\ out.workout_frequency[8].count = 2
    /\ \A i \in 2..7 : out.workout_frequency[i].count = 0

-----------------------------------------------------------------------------
(* Type breakdown and consistency statistics (src/main.py:272-346) *)

\* round(x, 1), as a number of tenths: the nearest tenth, an exact tie going to
\* the even one (the code rounds the float nearest to x)
round_1(x) ==
    LET n == 10 * x[1]
        q == n \div x[2]
        rem == n - q * x[2]
        tenths == IF 2 * rem < x[2] THEN q
                  ELSE IF 2 * rem > x[2] THEN q + 1
                  ELSE IF q % 2 = 0 THEN q ELSE q + 1
    IN Rat(tenths, 10)

\* list.sort(key=..., reverse=True): a stable sort of items by keys (keys[i]
\* is the key of items[i]), the larger key first; equal keys keep their order
stable_sort_reverse(items, keys) ==
    LET n == Len(items)
        rank(i) == Cardinality({j \in 1..n : keys[j] > keys[i]})
                   + Cardinality({j \in 1..(i - 1) : keys[j] = keys[i]}) + 1
    IN [p \in 1..n |-> items[CHOOSE i \in 1..n : rank(i) = p]]

\* The keys of a dict filled in one pass over the list whose i-th element has
\* key keys[i], in insertion order
keys_in_order(keys) ==
    LET first == {i \in 1..Len(keys) : \A j \in 1..(i - 1) : keys[j] # keys[i]}
        nth(k) == CHOOSE i \in first : Cardinality({j \in first : j < i}) = k - 1
    IN [k \in 1..Cardinality(first) |-> keys[nth(k)]]

\* max(counts, key=counts.get): the first key, in insertion order, with the
\* largest count
max_by_count(keys) ==
    LET distinct == keys_in_order(keys)
        cnt(k) == Cardinality({i \in 1..Len(keys) : keys[i] = k})
        best == CHOOSE p \in 1..Len(distinct) :
                    /\ \A r \in 1..Len(distinct) : cnt(distinct[r]) <= cnt(distinct[p])
                    /\ \A r \in 1..(p - 1) : cnt(distinct[r]) < cnt(distinct[p])
    IN distinct[best]

workout_type(w) == w.type

\* calculate_type_breakdown
calculate_type_breakdown(ws) ==
    LET total_workouts == Len(ws)
        types == keys_in_order([i \in 1..Len(ws) |-> workout_type(ws[i])])
        of_type(t) == LET Test(w) == w.type = t IN SelectSeq(ws, Test)
        result == [k \in 1..Len(types) |->
                     LET group == of_type(types[k])
                     IN [type |-> types[k],
                         count |-> Len(group),
                         total_duration |-> sum_duration(group),
                         total_calories |-> sum_calories(group),
                         percentage |-> round_1(Rat(Len(group) * 100, total_workouts))]]
    IN stable_sort_reverse(result, [k \in 1..Len(result) |-> result[k].count])

\* strftime('%A')
day_name(w) ==
    <<"Monday", "Tuesday", "Wednesday", "Thursday", "Friday", "Saturday", "Sunday">>
        [weekday(w.parsed_date.t) + 1]

\* str.capitalize() on the workout types of the model
capitalize(s) ==
    CASE s = "running" -> "Running"
      [] s = "yoga" -> "Yoga"
      [] OTHER -> s

\* calculate_consistency_stats
calculate_consistency_stats(ws) ==
    IF ws = <<>>
    THEN [total_workouts |-> 0, total_duration |-> 0, total_calories |-> 0,
          avg_workouts_per_week |-> RatInt(0), avg_duration_per_workout |-> RatInt(0),
          most_active_day |-> "N/A", favorite_workout_type |-> "N/A"]
    ELSE
      LET total_workouts == Len(ws)
          dates == {date(ws[i].parsed_date.t) : i \in 1..Len(ws)}
          max_date == CHOOSE d \in dates : \A e \in dates : e <= d
          min_date == CHOOSE d \in dates : \A e \in dates : e >= d
          date_range == (max_date - min_date) + 1
          \* total_workouts / max(date_range / 7, 1)
          per_week == IF date_range > 7 THEN Rat(total_workouts * 7, date_range)
                      ELSE RatInt(total_workouts)
      IN [total_workouts |-> total_workouts,
          total_duration |-> sum_duration(ws),
          total_calories |-> sum_calories(ws),
          avg_workouts_per_week |-> round_1(per_week),
          avg_duration_per_workout |-> round_1(Rat(sum_duration(ws), total_workouts)),
          most_active_day |-> max_by_count([i \in 1..Len(ws) |-> day_name(ws[i])]),
          favorite_workout_type |->
              capitalize(max_by_count([i \in 1..Len(ws) |-> workout_type(ws[i])]))]

-----------------------------------------------------------------------------
(* GET /insights/comprehensive (src/main.py:380-422), step by step *)

\* Longest scan result SpecInsights draws
MaxRawWorkouts == 2

Item(id, type, duration, calories, timestamp) ==
    [id |-> id, user_id |-> "alice", type |-> type, duration |-> duration,
     calories |-> calories, timestamp |-> timestamp]

\* Stored workouts of the requesting user: timestamps with "Z", with an
\* offset and without one, a missing, an empty and an unparsable timestamp
StoredItems ==
    { Item("w1", "running", 30, 300, IsoString(At(ThisSunday + 6, 12, 0, 0, 0), "Z")),
      Item("w2", "yoga", 45, 400, IsoString(At(ThisSunday + 5, 18, 0, 0, 0), "+00:00")),
      Item("w3", "running", 20, 150, NoTimestamp),
      Item("w4", "yoga", 10, 80, EmptyTimestamp),
      Item("w5", "running", 5, 50, GarbageTimestamp),
      Item("w6", "yoga", 15, 120, IsoString(At(ThisSunday + 6, 12, 0, 0, 0), "")) }

\* response.get('Items', []) of the scan, in the order DynamoDB chooses
ScanResults ==
    UNION {{s \in [1..n -> StoredItems] : \A i, j \in 1..n : i # j => s[i] # s[j]}
           : n \in 0..MaxRawWorkouts}

\* profile_response.get('Item', {})
InsightProfiles ==
    { <<>>,
      [weekly_target_type |-> "workouts", weekly_target_value |-> 2],
      [weekly_target_type |-> "minutes", weekly_target_value |-> 20] }

\* Clock readings during a request: the last second of Saturday, its last
\* tick, and the Sunday that follows
InsightClock ==
    { At(ThisSunday + 6, 23, 59, 59, 0),
      At(ThisSunday + 6, 23, 59, 59, TicksPerSecond - 1),
      At(ThisSunday + 7, 0, 0, 0, 0) }

\* ts.replace('Z', '+00:00')
replace_Z(ts) == IF ts.tz = "Z" THEN [ts EXCEPT !.tz = "+00:00"] ELSE ts

\* datetime.fromisoformat raises ValueError on a string that is not ISO-8601
fromisoformat_raises(s) == s.kind # "iso" \/ s.tz = "Z"

\* datetime.fromisoformat: aware when the string carries an offset
fromisoformat(s) == Datetime(s.t, s.tz # "")

\* The body of the loop of main.py:394-402: the parsed_date of item w when the
\* clock shows c
parse_timestamp(w, c) ==
    IF FalsyTimestamp(w.timestamp) THEN utcnow(c)
    ELSE IF fromisoformat_raises(replace_Z(w.timestamp)) THEN utcnow(c)
    ELSE fromisoformat(replace_Z(w.timestamp))

parsed(w) == "parsed_date" \in DOMAIN w

\* w['parsed_date'] = dt
with_parsed_date(w, dt) ==
    [f \in DOMAIN w \cup {"parsed_date"} |-> IF f = "parsed_date" THEN dt ELSE w[f]]

\* Sorting a list that holds offset-naive and offset-aware keys raises TypeError
sort_raises(ws) ==
    \E i, j \in 1..Len(ws) : ws[i].parsed_date.aware # ws[j].parsed_date.aware

parsed_date_key(w) == w.parsed_date.t

\* An uncaught exception: the request ends with status 500
Failed(error) == [status |-> 500, error |-> error]

InitInsights ==
    /\ IdleCrud
    /\ clock \in InsightClock
    /\ workouts \in ScanResults
    /\ profile \in InsightProfiles
    /\ pc = "parse"
    /\ out = <<>>

\* Time passes while the request is served
tick ==
    /\ pc # "done"
    /\ \E c \in InsightClock : c > clock /\ clock' = c
    /\ UNCHANGED <<workouts, profile, pc, out>>
    /\ UNCHANGED crudVars

\* One iteration of `for w in workouts`
parse_next ==
    /\ pc = "parse"
    /\ \E i \in 1..Len(workouts) :
         /\ ~parsed(workouts[i])
         /\ \A j \in 1..(i - 1) : parsed(workouts[j])
         /\ workouts' = [workouts EXCEPT
                           ![i] = with_parsed_date(@, parse_timestamp(@, clock))]
    /\ UNCHANGED <<clock, profile, pc, out>>
    /\ UNCHANGED crudVars

\* workouts.sort(key=lambda x: x['parsed_date'], reverse=True)
sort_workouts ==
    /\ pc = "parse"
    /\ \A i \in 1..Len(workouts) : parsed(workouts[i])
    /\ IF sort_raises(workouts)
       THEN /\ out' = Failed("TypeError")
            /\ pc' = "done"
            /\ UNCHANGED workouts
       ELSE /\ workouts' = stable_sort_reverse(
                            workouts, [i \in 1..Len(workouts) |-> parsed_date_key(workouts[i])])
            /\ pc' = "weekly_progress"
            /\ UNCHANGED out
    /\ UNCHANGED <<clock, profile>>
    /\ UNCHANGED crudVars

\* The calculators, in the order of main.py:406-412.  A calculator's result
\* goes into out; the TypeError of a comparison between an offset-naive
\* parsed_date and the offset-aware week bounds ends the request.
\* calculate_weekly_progress returns before it compares when no goal is set.
step_weekly_progress ==
    /\ pc = "weekly_progress"
    /\ IF has_target_type(profile) /\ has_target_value(profile) /\ raises_on_compare(workouts)
       THEN out' = Failed("TypeError") /\ pc' = "done"
       ELSE /\ out' = Put(out, "weekly_progress", calculate_weekly_progress(workouts, profile, utcnow(clock)))
            /\ pc' = "week_comparison"
    /\ UNCHANGED <<clock, workouts, profile>>
    /\ UNCHANGED crudVars

step_week_comparison ==
    /\ pc = "week_comparison"
    /\ IF raises_on_compare(workouts)
       THEN out' = Failed("TypeError") /\ pc' = "done"
       ELSE /\ out' = Put(out, "week_comparison", calculate_week_comparison(workouts, utcnow(clock)))
            /\ pc' = "streak"
    /\ UNCHANGED <<clock, workouts, profile>>
    /\ UNCHANGED crudVars

step_streak ==
    /\ pc = "streak"
    /\ out' = Put(out, "streak", calculate_streak(workouts, utcnow(clock)))
    /\ pc' = "workout_frequency"
    /\ UNCHANGED <<clock, workouts, profile>>
    /\ UNCHANGED crudVars

step_workout_frequency ==
    /\ pc = "workout_frequency"
    /\ IF raises_on_compare(workouts)
       THEN out' = Failed("TypeError") /\ pc' = "done"
       ELSE /\ out' = Put(out, "workout_frequency", calculate_workout_frequency(workouts, utcnow(clock)))
            /\ pc' = "calories_over_time"
    /\ UNCHANGED <<clock, workouts, profile>>
    /\ UNCHANGED crudVars

step_calories_over_time ==
    /\ pc = "calories_over_time"
    /\ IF raises_on_compare(workouts)
       THEN out' = Failed("TypeError") /\ pc' = "done"
       ELSE /\ out' = Put(out, "calories_over_time", calculate_calories_over_time(workouts, utcnow(clock)))
            /\ pc' = "type_breakdown"
    /\ UNCHANGED <<clock, workouts, profile>>
    /\ UNCHANGED crudVars

step_type_breakdown ==
    /\ pc = "type_breakdown"
    /\ out' = Put(out, "workout_type_breakdown", calculate_type_breakdown(workouts))
    /\ pc' = "consistency_stats"
    /\ UNCHANGED <<clock, workouts, profile>>
    /\ UNCHANGED crudVars

step_consistency_stats ==
    /\ pc = "consistency_stats"
    /\ out' = Put(out, "consistency_stats", calculate_consistency_stats(workouts))
    /\ pc' = "respond"
    /\ UNCHANGED <<clock, workouts, profile>>
    /\ UNCHANGED crudVars

\* return ComprehensiveInsights(...)
respond ==
    /\ pc = "respond"
    /\ out' = Put(out, "status", 200)
    /\ pc' = "done"
    /\ UNCHANGED <<clock, workouts, profile>>
    /\ UNCHANGED crudVars

NextInsights ==
    \/ tick
    \/ parse_next
    \/ sort_workouts
    \/ step_weekly_progress
    \/ step_week_comparison
    \/ step_streak
    \/ step_workout_frequency
    \/ step_calories_over_time
    \/ step_type_breakdown
    \/ step_consistency_stats
    \/ respond

SpecInsights == InitInsights /\ [][NextInsights]_vars

-----------------------------------------------------------------------------
(* Properties of the comprehensive-insights request *)

BadTimestamp(ts) == ts.kind \in {"none", "empty", "garbage"}

\* A missing or malformed timestamp was replaced by a reading of the clock
Recovered(w) ==
    BadTimestamp(w.timestamp) =>
        /\ w.parsed_date.aware
        /\ w.parsed_date.t \in InsightClock
        /\ w.parsed_date.t <= clock

\* C9: for every stored timestamp value (missing, empty, unparsable, or any
\* string the parser accepts, ISO date-times without a UTC offset included) the
\* request replaces a bad timestamp by the current instant and completes with a
\* composite result; no timestamp makes the request fail.
C9_TimestampsNeverFailTheRequest ==
    (pc = "done") =>
        /\ out.status = 200
        /\ \A i \in 1..Len(workouts) : parsed(workouts[i]) /\ Recovered(workouts[i])

\* What the code does instead: bad timestamps are recovered, and the request
\* fails exactly when a stored timestamp parses to an offset-naive datetime
C9_FailsExactlyOnNaiveTimestamps ==
    (pc = "done") =>
        /\ out.status = 500 <=>
              \E i \in 1..Len(workouts) :
                  workouts[i].timestamp.kind = "iso" /\ workouts[i].timestamp.tz = ""
        /\ \A i \in 1..Len(workouts) : parsed(workouts[i]) /\ Recovered(workouts[i])

\* The composite result of the calculators all run at the one instant now
Composite(ws, p, now) ==
    [weekly_progress |-> calculate_weekly_progress(ws, p, now),
     week_comparison |-> calculate_week_comparison(ws, now),
     streak |-> calculate_streak(ws, now),
     workout_frequency |-> calculate_workout_frequency(ws, now),
     calories_over_time |-> calculate_calories_over_time(ws, now),
     workout_type_breakdown |-> calculate_type_breakdown(ws),
     consistency_stats |-> calculate_consistency_stats(ws),
     status |-> 200]

\* C10: the composite result is determined by the normalized workouts, the
\* profile and a single request instant: it is the result of running every
\* calculator at one and the same `now`, whenever each calculator reads the
\* clock during the request.
C10_ResultOfASingleInstant ==
    (pc = "done" /\ out.status = 200) =>
        \E t \in InsightClock : out = Composite(workouts, profile, utcnow(t))

-----------------------------------------------------------------------------
(* Concurrent requests on the PlannedWorkouts table (src/main.py:449-498). *)
(* The handlers are plain `def` routes, which the server runs on worker    *)
(* threads, so requests interleave between their DynamoDB calls.  Here     *)
(* update_planned_workout and delete_planned_workout take two steps each:  *)
(* the get_item with the ownership test, then the put_item or delete_item. *)
(* pc maps each worker to the request it is running and the position of    *)
(* that request; response is the response sent last.                       *)

\* number of requests that may be in flight at once
MaxInFlight == 2

Workers == 1..MaxInFlight

\* The bodies the concurrent requests send: a create with or without an id of
\* the client, an update (whose id the handler overwrites) without one
CreateBodies == {b \in PlannedBodies : b.user_id = "default"}
UpdateBodies == {b \in CreateBodies : b.id = None}

\* A worker with no request
Idle == [at |-> "idle", user_id |-> None, workout_id |-> None, workout |-> <<>>]

\* A request that passed its ownership test and is about to call `at`
\* ("put_item" or "delete_item"), with the locals of its handler
Frame(at, user_id, workout_id, body) ==
    [at |-> at, user_id |-> user_id, workout_id |-> workout_id, workout |-> body]

InitConcurrent ==
    /\ IdleCrud
    /\ clock = CrudNow
    /\ workouts = <<>>
    /\ profile = <<>>
    /\ out = <<>>
    /\ pc = [w \in Workers |-> Idle]

\* POST /planned-workouts: one put_item
post_planned_workout(cred, workout) ==
    /\ create_planned_workout(cred, workout)
    /\ UNCHANGED <<clock, workouts, profile, pc, out>>

\* PUT /planned-workouts/{workout_id}, up to the ownership test
update_get_item(w, cred, workout_id, workout) ==
    /\ pc[w] = Idle
    /\ verify_token(cred)
    /\ LET user_id == get_current_user_id(cred)
       IN IF not_found(planned_workouts_table, workout_id, user_id)
          THEN /\ response' = Response("update_planned_workout", user_id, workout_id, 404, <<>>)
               /\ UNCHANGED pc
          ELSE /\ pc' = [pc EXCEPT ![w] = Frame("put_item", user_id, workout_id, <<workout>>)]
               /\ UNCHANGED response
    /\ UNCHANGED <<table, planned_workouts_table, clock, workouts, profile, out>>

\* PUT /planned-workouts/{workout_id}, from the assignments to the return
update_put_item(w) ==
    /\ pc[w].at = "put_item"
    /\ LET f == pc[w]
           item == [f.workout[1] EXCEPT !.id = f.workout_id, !.user_id = f.user_id]
       IN /\ planned_workouts_table' = Put(planned_workouts_table, f.workout_id, item)
          /\ response' = Response("update_planned_workout", f.user_id, f.workout_id, 200,
                                  <<item>>)
    /\ pc' = [pc EXCEPT ![w] = Idle]
    /\ UNCHANGED <<table, clock, workouts, profile, out>>

\* DELETE /planned-workouts/{workout_id}, up to the ownership test
delete_get_item(w, cred, workout_id) ==
    /\ pc[w] = Idle
    /\ verify_token(cred)
    /\ LET user_id == get_current_user_id(cred)
       IN IF not_found(planned_workouts_table, workout_id, user_id)
          THEN /\ response' = Response("delete_planned_workout", user_id, workout_id, 404, <<>>)
               /\ UNCHANGED pc
          ELSE /\ pc' = [pc EXCEPT ![w] = Frame("delete_item", user_id, workout_id, <<>>)]
               /\ UNCHANGED response
    /\ UNCHANGED <<table, planned_workouts_table, clock, workouts, profile, out>>

\* DELETE /planned-workouts/{workout_id}, the delete_item and the return
delete_delete_item(w) ==
    /\ pc[w].at = "delete_item"
    /\ LET f == pc[w]
       IN /\ planned_workouts_table' = Remove(planned_workouts_table, f.workout_id)
          /\ response' = Response("delete_planned_workout", f.user_id, f.workout_id, 200, <<>>)
    /\ pc' = [pc EXCEPT ![w] = Idle]
    /\ UNCHANGED <<table, clock, workouts, profile, out>>

NextConcurrent ==
    \/ \E cred \in Credentials, workout \in CreateBodies : post_planned_workout(cred, workout)
    \/ \E w \in Workers, cred \in Credentials, id \in Ids, workout \in UpdateBodies :
         update_get_item(w, cred, id, workout)
    \/ \E w \in Workers : update_put_item(w)
    \/ \E w \in Workers, cred \in Credentials, id \in Ids : delete_get_item(w, cred, id)
    \/ \E w \in Workers : delete_delete_item(w)

SpecConcurrent == InitConcurrent /\ [][NextConcurrent]_vars

\* C11: under any interleaving of requests on one planned-workout id, once
\* delete_planned_workout has succeeded the record stays absent until a later
\* create_planned_workout request: a record that is absent from the table
\* comes into it only by the put_item of a create request, never by the
\* put_item of an update that passed its ownership test earlier.
C11_DeletedStaysAbsentUntilCreate ==
    [][\A id \in Ids :
          (id \notin DOMAIN planned_workouts_table /\ id \in DOMAIN planned_workouts_table')
              => (response'.op = "create_planned_workout" /\ response'.id = id)]_vars

-----------------------------------------------------------------------------
(* The weekly windows of the Frequency and Calorie series, under SpecCalc *)

\* The window get_week_bounds gives for the week weeks_ago weeks back
Window(weeks_ago) == get_week_bounds(utcnow(clock), weeks_ago)

\* The positions of the workouts between the start of the week 7 weeks ago
\* and the end of the current week
SpanIndexes ==
    {i \in 1..Len(workouts) :
        /\ Window(7)[1].t <= workouts[i].parsed_date.t
        /\ workouts[i].parsed_date.t <= Window(0)[2].t}

\* The windows that hold workout i
WindowsOf(i) == {k \in 0..7 : i \in WeekIndexes(k)}

WindowsDisjoint ==
    \A j, k \in 0..7 : j < k => Window(k)[2].t < Window(j)[1].t

\* C12: the 8 weekly windows of the series partition the trailing 8-week
\* span: they are pairwise disjoint, every workout between the start of the
\* week 7 weeks ago and the end of the current week falls in exactly one
\* window, the 8 frequency counts add up to the number of those workouts, and
\* the last point's count is this_week_workouts of the week comparison.
C12_WindowsPartitionTheSpan ==
    Called("workout_frequency") =>
        /\ WindowsDisjoint
        /\ \A i \in SpanIndexes : Cardinality(WindowsOf(i)) = 1
        /\ SumSeq([i \in 1..8 |-> out.workout_frequency[i].count]) = Cardinality(SpanIndexes)
        /\ out.workout_frequency[8].count =
              calculate_week_comparison(workouts, utcnow(clock)).this_week_workouts

\* The part of C12 the code satisfies: the windows are disjoint, no workout
\* is counted twice, the counts add up to the workouts of the span that lie in
\* a window, and the last point agrees with the week comparison of the same
\* instant; the workouts of the span outside every window are those of the
\* last second of a Saturday, after 23:59:59 sharp
C12_DisjointWindowsWithGaps ==
    Called("workout_frequency") =>
        /\ WindowsDisjoint
        /\ \A i \in SpanIndexes : Cardinality(WindowsOf(i)) <= 1
        /\ SumSeq([i \in 1..8 |-> out.workout_frequency[i].count]) =
              Cardinality({i \in SpanIndexes : WindowsOf(i) # {}})
        /\ out.workout_frequency[8].count =
              calculate_week_comparison(workouts, utcnow(clock)).this_week_workouts
        /\ \A i \in SpanIndexes :
              WindowsOf(i) = {} =>
                  LET t == workouts[i].parsed_date.t
                  IN /\ weekday(t) = 5
                     /\ t % DayTicks > timedelta(0, 23, 59, 59)

\* Within one served request the last point and this_week_workouts come from
\* two readings of the clock
C12_LastPointOfOneResponse ==
    (pc = "done" /\ out.status = 200) =>
        out.workout_frequency[8].count = out.week_comparison.this_week_workouts

=============================================================================
